---- MODULE Spec2Model ----
(***************************************************************************)
(* Model of goconfig's env-backed loader (loader/env/env.go).              *)
(*                                                                         *)
(* State: the file system seen through os.Stat and godotenv's file read,   *)
(* the process environment (os.Setenv / os.Environ), the Loader value      *)
(* returned by the last NewLoader call, and one record per in-flight       *)
(* Load call.  Load is split at every access to shared state (the stat,    *)
(* the read of the file followed by the snapshot of the environment, each  *)
(* os.Setenv, the binder's read of the environment), so that Spec runs     *)
(* the calls one after the other and SpecConc interleaves them.            *)
(***************************************************************************)
EXTENDS Integers, Sequences, FiniteSets, TLC

VARIABLES
    fs,         \* path -> state of the file at that path
    env,        \* the process environment: key -> value, or Absent
    created,    \* what the last NewLoader call was given and what it returned
    calls,      \* caller -> the Load call that caller is running
    obs,        \* caller -> what an observer noted of that call (Spec only)
    prev,       \* the last Load that returned, while nothing else has run since
    inserted    \* key -> the value a Load that failed had inserted (Spec only)

vars == <<fs, env, created, calls, obs, prev, inserted>>

-----------------------------------------------------------------------------
(* Bounds of the model.                                                    *)

MaxFiles == 3       \* longest source list handed to NewLoader

-----------------------------------------------------------------------------
(* Values.                                                                 *)

Paths == {"a.env", "b.env"}
Keys == {"APP_NAME", "PORT"}
\* The values a key holds before any Load runs.
AmbientVals == [APP_NAME |-> {"testapp"}, PORT |-> {"8080"}]
Absent == "<absent>"

\* One line of a .env file: KEY=VALUE, or a line godotenv cannot parse.
Assign(k, v) == [ok |-> TRUE, key |-> k, val |-> v]
BadLine == [ok |-> FALSE, key |-> "", val |-> ""]

\* A path holds no file, a file that cannot be opened, or a file with lines.
NoFile == [kind |-> "missing", lines |-> <<>>]
Denied == [kind |-> "denied", lines |-> <<>>]
File(ls) == [kind |-> "file", lines |-> ls]

Contents ==
    { <<Assign("APP_NAME", "skippy"), Assign("PORT", "3000")>>,
      <<Assign("PORT", "notanumber")>>,
      <<Assign("PORT", "8080"), Assign("PORT", "3000"), BadLine>> }

FileStates == {NoFile, Denied} \cup {File(ls) : ls \in Contents}

-----------------------------------------------------------------------------
(* Errors.  A Go error is modelled by its Unwrap chain, outermost layer    *)
(* first; the nil error is the empty chain.                                *)

NoErr == <<>>
Layer(msg, arg) == [msg |-> msg, arg |-> arg]
Wrap(msg, arg, err) == <<Layer(msg, arg)>> \o err

ErrEnvFilesNotSpecified == <<Layer("env files not specified", "")>>
ErrSourceNotFound == <<Layer("source not found", "")>>

\* errors.Is: some error of the chain is the target.
ErrorsIs(err, target) ==
    \E i \in 1..Len(err) : SubSeq(err, i, Len(err)) = target

-----------------------------------------------------------------------------
(* The file system calls loadEnvFile makes.                                *)

\* os.Stat followed by os.IsNotExist: TRUE exactly when the path has no file.
StatNotExist(files, p) == files[p].kind = "missing"

NoMap == [k \in Keys |-> Absent]

\* godotenv's parse of the lines of a file: a line that is no assignment
\* fails the whole file, a repeated key keeps its last value.
RECURSIVE ParseLines(_, _)
ParseLines(ls, m) ==
    IF ls = <<>> THEN [err |-> NoErr, map |-> m]
    ELSE IF ~Head(ls).ok
         THEN [err |-> <<Layer("unexpected character in variable name", "")>>,
               map |-> NoMap]
         ELSE ParseLines(Tail(ls), [m EXCEPT ![Head(ls).key] = Head(ls).val])

\* godotenv's readFile: open the file, then parse it.
ReadFile(files, p) ==
    CASE files[p].kind = "missing" ->
            [err |-> Wrap("open", p, <<Layer("no such file or directory", "")>>),
             map |-> NoMap]
      [] files[p].kind = "denied" ->
            [err |-> Wrap("open", p, <<Layer("permission denied", "")>>),
             map |-> NoMap]
      [] OTHER -> ParseLines(files[p].lines, NoMap)

\* loadEnvFile calls godotenv.Load, which never overloads (godotenv.Overload
\* is the variant that does).
OverloadMut == TRUE
Overload == FALSE

\* godotenv's loadFile writes a key when the snapshot of the environment it
\* took after reading the file does not hold the key.
ShouldSetMut(currentEnv, k) == env[k] = Absent \/ Overload
ShouldSet(currentEnv, k) == k \notin currentEnv \/ Overload

-----------------------------------------------------------------------------
(* The binder (env.Parse) on the declared fields of the target type.       *)

NoDefault == "<none>"
Field(name, key, type, default, required) ==
    [name |-> name, key |-> key, type |-> type, default |-> default,
     required |-> required]

\* The target type T: the test's SampleConfig with AppName declared required
\* and a field with a default, as the README's examples declare them.
Fields ==
    << Field("Port", "PORT", "int", NoDefault, FALSE),
       Field("AppName", "APP_NAME", "string", NoDefault, TRUE),
       Field("LogLevel", "LOG_LEVEL", "string", "info", FALSE) >>

ZeroCfg == [Port |-> 0, AppName |-> "", LogLevel |-> ""]

\* os.LookupEnv on a copy of the environment.
Lookup(e, k) == IF k \in DOMAIN e THEN e[k] ELSE Absent

\* strconv's conversion of the decimal strings the model uses.
IsInt(v) == v \in {"3000", "8080"}
IntOf(v) == IF v = "3000" THEN 3000 ELSE 8080

\* One field: the raw string is the environment's value, else the default;
\* without either a required field fails and any other is left alone.
BindField(f, e) ==
    LET raw == IF Lookup(e, f.key) # Absent THEN Lookup(e, f.key)
               ELSE IF f.default # NoDefault THEN f.default ELSE Absent
    IN  IF raw = Absent
        THEN IF f.required
             THEN [set |-> FALSE, val |-> 0,
                   err |-> <<Layer("required environment variable is not set", f.key)>>]
             ELSE [set |-> FALSE, val |-> 0, err |-> NoErr]
        ELSE IF f.type = "int"
             THEN IF IsInt(raw)
                  THEN [set |-> TRUE, val |-> IntOf(raw), err |-> NoErr]
                  ELSE [set |-> FALSE, val |-> 0,
                        err |-> Wrap("parse error on field", f.name,
                                     <<Layer("invalid syntax", raw)>>)]
             ELSE [set |-> TRUE, val |-> raw, err |-> NoErr]

\* All fields in declaration order, stopping at the first failure.
RECURSIVE BindFields(_, _, _)
BindFields(fields, e, cfg) ==
    IF fields = <<>> THEN [cfg |-> <<cfg>>, err |-> NoErr]
    ELSE LET f == Head(fields)
             r == BindField(f, e)
         IN  IF r.err # NoErr THEN [cfg |-> <<>>, err |-> r.err]
             ELSE BindFields(Tail(fields), e,
                             IF r.set THEN [cfg EXCEPT ![f.name] = r.val] ELSE cfg)

EnvParse(e) == BindFields(Fields, e, ZeroCfg)

-----------------------------------------------------------------------------
(* NewLoader.                                                              *)

Callers == {1, 2}

SeqsUpTo(S, n) == UNION {[1..m -> S] : m \in 0..n}
SourceLists == SeqsUpTo(Paths, MaxFiles)

\* The option lists a caller passes: none, or WithSkipMissingFiles.
OptionLists == {<<>>, <<"WithSkipMissingFiles">>}

\* An option applied to the loader under construction.
ApplyOption(opt, l) ==
    IF opt = "WithSkipMissingFiles" THEN [l EXCEPT !.skipMissingFiles = TRUE] ELSE l

RECURSIVE ApplyOptions(_, _)
ApplyOptions(opts, l) ==
    IF opts = <<>> THEN l ELSE ApplyOptions(Tail(opts), ApplyOption(Head(opts), l))

\* A *Loader[T] is a sequence of at most one Loader; nil is the empty one.
NilLoader == <<>>
NoLoader == [envFiles |-> <<>>, skipMissingFiles |-> FALSE]

\* NewLoader[T](envFiles, opts...): the pair it returns.
NewLoaderResultMut(envFiles, opts) ==
    [loader |-> <<ApplyOptions(opts,
                     [envFiles |-> envFiles, skipMissingFiles |-> FALSE])>>,
     err |-> IF Len(envFiles) = 0 THEN ErrEnvFilesNotSpecified ELSE NoErr]
NewLoaderResult(envFiles, opts) ==
    IF Len(envFiles) = 0
    THEN [loader |-> NilLoader, err |-> ErrEnvFilesNotSpecified]
    ELSE [loader |-> <<ApplyOptions(opts,
                          [envFiles |-> envFiles, skipMissingFiles |-> FALSE])>>,
          err |-> NoErr]

NotCreated ==
    [called |-> FALSE, envFiles |-> <<>>, opts |-> <<>>,
     loader |-> NilLoader, err |-> NoErr]

\* What Load returns: (*T, error), the pointer a sequence of at most one value.
NoOut == [cfg |-> <<>>, err |-> NoErr]

IdleCall ==
    [pc |-> "idle", ldr |-> NoLoader, idx |-> 0, envMap |-> NoMap,
     currentEnv |-> {}, todo |-> {}, out |-> NoOut]

\* A call that has returned is forgotten once its result has been used.
Forget(cs) == [c \in DOMAIN cs |-> IF cs[c].pc = "done" THEN IdleCall ELSE cs[c]]

\* A caller constructs a loader; it replaces the one the callers held.
NewLoader(envFiles, opts) ==
    /\ created' = [called |-> TRUE, envFiles |-> envFiles, opts |-> opts]
                    @@ NewLoaderResult(envFiles, opts)
    /\ calls' = Forget(calls)
    /\ UNCHANGED <<fs, env>>

-----------------------------------------------------------------------------
(* Load, one call per caller.                                              *)

Running(c) == calls[c].pc \notin {"idle", "done"}
FileOf(call) == call.ldr.envFiles[call.idx]

\* The for loop moves to the next file, or past the last one to env.Parse.
Advance(call) ==
    IF call.idx + 1 > Len(call.ldr.envFiles)
    THEN [call EXCEPT !.pc = "parse", !.idx = call.idx + 1]
    ELSE [call EXCEPT !.pc = "stat", !.idx = call.idx + 1]

\* Load returns (nil, err).
FailMut(call, err) ==
    [Advance(call) EXCEPT !.out = [cfg |-> <<>>, err |-> err]]
Fail(call, err) == [call EXCEPT !.pc = "done", !.out = [cfg |-> <<>>, err |-> err]]

\* The test Load makes of loadEnvFile's error.
SkippableMut(skipMissingFiles, err) == ErrorsIs(err, ErrSourceNotFound)
SkippableAnyMut(skipMissingFiles, err) == skipMissingFiles /\ err # NoErr
Skippable(skipMissingFiles, err) ==
    skipMissingFiles /\ ErrorsIs(err, ErrSourceNotFound)

\* The body of Load's loop once loadEnvFile has returned err.
AfterLoadEnvFileMut(call, err) ==
    IF err = NoErr THEN Advance(call)
    ELSE IF Skippable(call.ldr.skipMissingFiles, err)
         THEN [call EXCEPT !.pc = "parse", !.idx = Len(call.ldr.envFiles) + 1]
    ELSE Fail(call, Wrap("error loading env file", FileOf(call), err))
AfterLoadEnvFile(call, err) ==
    IF err = NoErr THEN Advance(call)
    ELSE IF Skippable(call.ldr.skipMissingFiles, err) THEN Advance(call)
    ELSE Fail(call, Wrap("error loading env file", FileOf(call), err))

\* loadEnvFile's answer to a file that godotenv.Load could not load.
LoadFailedMut(err) ==
    IF err[Len(err)].msg = "no such file or directory" THEN ErrSourceNotFound
    ELSE Wrap("failed to load env file", "", err)
LoadFailed(err) == Wrap("failed to load env file", "", err)

\* What a Load that returns out leaves of the environment: Load has no
\* deferred restore, the keys its sources set are left as they are.
EnvOnReturnMut(c, out) == IF out.err # NoErr THEN obs[c].startEnv ELSE env
EnvOnReturn(c, out) == env
EnvAfter(c, call) == IF call.pc = "done" THEN EnvOnReturn(c, call.out) ELSE env

\* l.Load() is called on the loader NewLoader returned.
StartLoad(c) ==
    /\ ~Running(c)
    /\ created.loader # NilLoader
    /\ calls' = [calls EXCEPT ![c] = Advance([IdleCall EXCEPT !.ldr = created.loader[1]])]
    /\ UNCHANGED <<fs, env, created>>

\* loadEnvFile: os.Stat and the os.IsNotExist test.
StatStep(c) ==
    /\ calls[c].pc = "stat"
    /\ calls' = [calls EXCEPT ![c] =
                   IF StatNotExist(fs, FileOf(@))
                   THEN AfterLoadEnvFile(@, ErrSourceNotFound)
                   ELSE [@ EXCEPT !.pc = "read"]]
    /\ env' = EnvAfter(c, calls'[c])
    /\ UNCHANGED <<fs, created>>

\* godotenv.Load: the file is read and parsed, then the environment's keys
\* are listed (os.Environ).
ReadStep(c) ==
    LET call == calls[c]
        r == ReadFile(fs, FileOf(call))
        todo == {k \in Keys : r.map[k] # Absent}
        loaded == [call EXCEPT !.envMap = r.map,
                               !.currentEnv = {k \in Keys : env[k] # Absent},
                               !.todo = todo]
    IN  /\ call.pc = "read"
        /\ calls' = [calls EXCEPT ![c] =
                       IF r.err # NoErr THEN AfterLoadEnvFile(call, LoadFailed(r.err))
                       ELSE IF todo = {} THEN AfterLoadEnvFile(loaded, NoErr)
                       ELSE [loaded EXCEPT !.pc = "setenv"]]
        /\ env' = EnvAfter(c, calls'[c])
        /\ UNCHANGED <<fs, created>>

\* godotenv.Load: one key of the parsed map, in the map's arbitrary order.
SetenvStep(c) ==
    /\ calls[c].pc = "setenv"
    /\ \E k \in calls[c].todo :
         LET call == [calls[c] EXCEPT !.todo = @ \ {k}]
         IN  /\ env' = IF ShouldSet(call.currentEnv, k)
                       THEN [env EXCEPT ![k] = call.envMap[k]]
                       ELSE env
             /\ calls' = [calls EXCEPT ![c] =
                            IF call.todo = {} THEN AfterLoadEnvFile(call, NoErr)
                            ELSE call]
    /\ UNCHANGED <<fs, created>>

\* What Load returns once env.Parse has answered.
ParseResultMut(r) ==
    IF r.err # NoErr
    THEN [cfg |-> <<ZeroCfg>>,
          err |-> Wrap("error parsing env variables into struct", "", r.err)]
    ELSE [cfg |-> r.cfg, err |-> NoErr]
ParseResult(r) ==
    IF r.err # NoErr
    THEN [cfg |-> <<>>, err |-> Wrap("error parsing env variables into struct", "", r.err)]
    ELSE [cfg |-> r.cfg, err |-> NoErr]

\* What env.Parse reads: the environment as it is once the loop has ended.
ParseInputMut(c) == obs[c].startEnv
ParseInput(c) == env

\* env.Parse(&cfg), after the loop.
BindStep(c) ==
    /\ calls[c].pc = "parse"
    /\ calls' = [calls EXCEPT ![c] = [@ EXCEPT !.pc = "done",
                                               !.out = ParseResult(EnvParse(ParseInput(c)))]]
    /\ env' = EnvAfter(c, calls'[c])
    /\ UNCHANGED <<fs, created>>

\* Another actor removes, protects or rewrites a file.
FsChange(p, st) ==
    /\ st # fs[p]
    /\ fs' = [fs EXCEPT ![p] = st]
    /\ calls' = Forget(calls)
    /\ UNCHANGED <<env, created>>

-----------------------------------------------------------------------------
(* The observer of a sequential run: where each Load started, what the     *)
(* Load before it returned, and the operations the Load made, in order.    *)

NoPrev == [valid |-> FALSE, ldr |-> NoLoader, out |-> NoOut, startEnv |-> NoMap]
Event(op, i) == [op |-> op, idx |-> i]
NoObs == [startEnv |-> NoMap, before |-> NoPrev, log |-> <<>>]

\* A Load starts.
ObserveStart(c) ==
    /\ obs' = [obs EXCEPT ![c] = [startEnv |-> env, before |-> prev, log |-> <<>>]]
    /\ prev' = prev
    /\ inserted' = inserted

\* A step of a Load: the operation is logged, and a Load that returns
\* becomes the last Load that returned.
ObserveStep(c) ==
    /\ obs' = [obs EXCEPT ![c].log = Append(@, Event(calls[c].pc, calls[c].idx))]
    /\ prev' = IF calls'[c].pc = "done"
               THEN [valid |-> TRUE, ldr |-> calls'[c].ldr, out |-> calls'[c].out,
                     startEnv |-> obs[c].startEnv]
               ELSE prev
    /\ inserted' = IF calls'[c].pc = "done" /\ calls'[c].out.err # NoErr
                   THEN [k \in Keys |->
                           IF obs[c].startEnv[k] = Absent /\ env[k] # Absent
                           THEN env[k] ELSE inserted[k]]
                   ELSE inserted

\* Something other than a Load ran: the returned calls are forgotten.
ObserveOther ==
    /\ obs' = [c \in Callers |-> IF calls[c].pc = "done" THEN NoObs ELSE obs[c]]
    /\ prev' = NoPrev
    /\ inserted' = inserted

-----------------------------------------------------------------------------
(* Specifications.                                                         *)

Init ==
    /\ fs \in [Paths -> FileStates]
    /\ env \in {e \in [Keys -> {Absent} \cup UNION {AmbientVals[k] : k \in Keys}] :
                  \A k \in Keys : e[k] \in {Absent} \cup AmbientVals[k]}
    /\ created = NotCreated
    /\ calls = [c \in Callers |-> IdleCall]
    /\ obs = [c \in Callers |-> NoObs]
    /\ prev = NoPrev
    /\ inserted = NoMap

Quiet == \A c \in Callers : ~Running(c)

\* One caller: every Load runs to its return before anything else happens.
Next ==
    \/ \E fl \in SourceLists, opts \in OptionLists :
         Quiet /\ NewLoader(fl, opts) /\ ObserveOther
    \/ StartLoad(1) /\ ObserveStart(1)
    \/ StatStep(1) /\ ObserveStep(1)
    \/ ReadStep(1) /\ ObserveStep(1)
    \/ SetenvStep(1) /\ ObserveStep(1)
    \/ BindStep(1) /\ ObserveStep(1)
    \/ \E p \in Paths, st \in FileStates :
         Quiet /\ FsChange(p, st) /\ ObserveOther

Spec == Init /\ [][Next]_vars

\* Two callers interleave their Loads, each on a loader of one file, starting
\* from an empty environment and files that parse; another actor removes
\* files at any moment.
ConcLists == {<<>>} \cup {<<p>> : p \in Paths}

InitConc ==
    /\ fs \in [Paths -> {File(ls) : ls \in {c \in Contents : ParseLines(c, NoMap).err = NoErr}}]
    /\ env = NoMap
    /\ created = NotCreated
    /\ calls = [c \in Callers |-> IdleCall]
    /\ obs = [c \in Callers |-> NoObs]
    /\ prev = NoPrev
    /\ inserted = NoMap

NextConc ==
    \/ \E fl \in ConcLists, opts \in OptionLists :
         NewLoader(fl, opts) /\ UNCHANGED <<obs, prev, inserted>>
    \/ \E c \in Callers :
         \/ StartLoad(c) /\ UNCHANGED <<obs, prev, inserted>>
         \/ StatStep(c) /\ UNCHANGED <<obs, prev, inserted>>
         \/ ReadStep(c) /\ UNCHANGED <<obs, prev, inserted>>
         \/ SetenvStep(c) /\ UNCHANGED <<obs, prev, inserted>>
         \/ BindStep(c) /\ UNCHANGED <<obs, prev, inserted>>
    \/ \E p \in Paths : FsChange(p, NoFile) /\ UNCHANGED <<obs, prev, inserted>>

SpecConc == InitConc /\ [][NextConc]_vars

-----------------------------------------------------------------------------
(* Load as a function of the files and the environment it starts from: the *)
(* result of a call that nothing interleaves with.                         *)

\* loadEnvFile on one file: the error it returns and the environment it leaves.
LoadEnvFile(files, p, e) ==
    IF StatNotExist(files, p) THEN [err |-> ErrSourceNotFound, env |-> e]
    ELSE LET r == ReadFile(files, p)
             currentEnv == {k \in Keys : e[k] # Absent}
         IN  IF r.err # NoErr THEN [err |-> LoadFailed(r.err), env |-> e]
             ELSE [err |-> NoErr,
                   env |-> [k \in Keys |->
                              IF r.map[k] # Absent /\ ShouldSet(currentEnv, k)
                              THEN r.map[k] ELSE e[k]]]

\* Load from its i-th file on.
RECURSIVE LoadFrom(_, _, _, _, _)
LoadFrom(envFiles, skipMissingFiles, files, e, i) ==
    IF i > Len(envFiles)
    THEN [out |-> ParseResult(EnvParse(e)), env |-> e]
    ELSE LET r == LoadEnvFile(files, envFiles[i], e)
         IN  IF r.err = NoErr
             THEN LoadFrom(envFiles, skipMissingFiles, files, r.env, i + 1)
             ELSE IF Skippable(skipMissingFiles, r.err)
             THEN LoadFrom(envFiles, skipMissingFiles, files, e, i + 1)
             ELSE [out |-> [cfg |-> <<>>,
                            err |-> Wrap("error loading env file", envFiles[i], r.err)],
                   env |-> e]

-----------------------------------------------------------------------------
(* What the claims speak of.                                               *)

Done(c) == calls[c].pc = "done"
Missing(p) == fs[p].kind = "missing"
\* The file at p is there and godotenv cannot load it.
Unloadable(p) == ~Missing(p) /\ ReadFile(fs, p).err # NoErr
\* The file at p is there, loads, and defines k.
Defines(p, k) == ~Missing(p) /\ ReadFile(fs, p).err = NoErr /\ ReadFile(fs, p).map[k] # Absent
Min(S) == CHOOSE x \in S : \A y \in S : x <= y
\* The sources a returned Load went through: all of them, or those up to
\* the one it failed at.
Reached(c) == 1..(IF calls[c].idx > Len(calls[c].ldr.envFiles)
                  THEN Len(calls[c].ldr.envFiles) ELSE calls[c].idx)

-----------------------------------------------------------------------------
\* A step keeps the value of every key the environment holds.
C1_NoOverwriteStep == \A k \in Keys : env[k] # Absent => env'[k] = env[k]

\* After a Load, a key holds what it held before the Load, else the value of
\* the first source gone through that defines it.
C1_FirstListedWins ==
    \A c \in Callers : Done(c) =>
      \A k \in Keys :
        LET fl == calls[c].ldr.envFiles
            D == {i \in Reached(c) : Defines(fl[i], k)}
        IN  IF obs[c].startEnv[k] # Absent THEN env[k] = obs[c].startEnv[k]
            ELSE IF D = {} THEN env[k] = Absent
            ELSE env[k] = ReadFile(fs, fl[Min(D)]).map[k]

\* C1: insert-if-absent priority.  In a sequential run no step of any Load
\* changes the value of a key the environment already holds, and a Load that
\* has returned leaves every key that was absent when it started at the value
\* of the first listed source it went through that defines the key (or
\* absent, when none does).
C1_InsertIfAbsent == [][C1_NoOverwriteStep]_vars /\ []C1_FirstListedWins

\* A Load of <<a.env, b.env>> has returned; both files define PORT, with
\* different values, and APP_NAME was set before the Load while b.env
\* defines it too: PORT holds a.env's value, APP_NAME the earlier one.
C1_Witness ==
    /\ Done(1)
    /\ calls[1].ldr.envFiles = <<"a.env", "b.env">>
    /\ Defines("a.env", "PORT") /\ Defines("b.env", "PORT")
    /\ ReadFile(fs, "a.env").map["PORT"] # ReadFile(fs, "b.env").map["PORT"]
    /\ obs[1].startEnv["PORT"] = Absent
    /\ env["PORT"] = ReadFile(fs, "a.env").map["PORT"]
    /\ Defines("b.env", "APP_NAME")
    /\ obs[1].startEnv["APP_NAME"] = "testapp"
    /\ env["APP_NAME"] = "testapp"

-----------------------------------------------------------------------------
Present(p) == ~Missing(p)

\* The check that finds a source missing, the option set: the call moves to
\* the next source and the environment stays.
C2_SkipStep ==
    \A c \in Callers :
      ( /\ calls[c].pc = "stat"
        /\ calls[c].ldr.skipMissingFiles
        /\ Missing(FileOf(calls[c]))
        /\ calls'[c] # calls[c] )
      => /\ env' = env
         /\ calls'[c] = Advance(calls[c])
         /\ calls'[c].idx = calls[c].idx + 1

\* A returned Load against Load on the list without its missing paths.
C2_SameAsWithout ==
    \A c \in Callers : (Done(c) /\ calls[c].ldr.skipMissingFiles) =>
      LET fl == calls[c].ldr.envFiles
          ref == LoadFrom(SelectSeq(fl, Present), TRUE, fs, obs[c].startEnv, 1)
      IN  /\ calls[c].out = ref.out
          /\ env = ref.env
          /\ \A n \in 1..Len(obs[c].log) :
               (obs[c].log[n].op # "parse" /\ Missing(fl[obs[c].log[n].idx]))
                 => obs[c].log[n].op = "stat"

\* C2: skip-missing.  With WithSkipMissingFiles, the step that finds a source
\* missing changes neither the environment nor anything but the position in
\* the list, which moves to the next source; no missing source is read or
\* materialized; and what a Load returns and the environment it leaves are
\* those of Load on the list without its missing paths.
C2_SkipMissing == [][C2_SkipStep]_vars /\ []C2_SameAsWithout

\* A Load of <<b.env, a.env, b.env>> with the option has succeeded: b.env is
\* missing, first and last in the list, and a.env's keys were inserted.
C2_Witness ==
    /\ Done(1)
    /\ calls[1].ldr.skipMissingFiles
    /\ calls[1].ldr.envFiles = <<"b.env", "a.env", "b.env">>
    /\ Missing("b.env")
    /\ obs[1].startEnv = NoMap
    /\ calls[1].out.err = NoErr
    /\ calls[1].out.cfg = <<[Port |-> 3000, AppName |-> "skippy", LogLevel |-> "info"]>>
    /\ env["PORT"] = "3000"

-----------------------------------------------------------------------------
-----------------------------------------------------------------------------
\* C4: NewLoader with an empty source list returns nil and
\* ErrEnvFilesNotSpecified whatever the options; with a non-empty list it
\* returns no error and a Loader holding the list, with skipMissingFiles set
\* exactly when WithSkipMissingFiles was among the options.
C4_NonEmptySources ==
    created.called =>
      IF Len(created.envFiles) = 0
      THEN created.loader = NilLoader /\ created.err = ErrEnvFilesNotSpecified
      ELSE /\ created.err = NoErr
           /\ created.loader =
                <<[envFiles |-> created.envFiles,
                   skipMissingFiles |->
                     \E n \in 1..Len(created.opts) :
                        created.opts[n] = "WithSkipMissingFiles"]>>

\* NewLoader was called with an empty list and WithSkipMissingFiles, and
\* returned nil.
C4_Witness ==
    /\ created.called
    /\ created.envFiles = <<>>
    /\ created.opts = <<"WithSkipMissingFiles">>
    /\ created.loader = NilLoader
    /\ created.err = ErrEnvFilesNotSpecified

-----------------------------------------------------------------------------
\* The last operation of the call was env.Parse.
Bound(c) ==
    /\ Len(obs[c].log) > 0
    /\ obs[c].log[Len(obs[c].log)].op = "parse"

C5_IsSet(f) == Lookup(env, f.key) # Absent
C5_Unconvertible(f) == C5_IsSet(f) /\ f.type = "int" /\ ~IsInt(Lookup(env, f.key))
C5_MissingRequired(f) == ~C5_IsSet(f) /\ f.default = NoDefault /\ f.required
C5_Converted(f, raw) == IF f.type = "int" THEN IntOf(raw) ELSE raw
C5_Expected(f) ==
    IF C5_IsSet(f) THEN C5_Converted(f, Lookup(env, f.key))
    ELSE IF f.default # NoDefault THEN C5_Converted(f, f.default)
    ELSE ZeroCfg[f.name]

\* C5: the binding decision.  A Load that got to env.Parse ran it on the
\* environment all its sources left, and per declared field: a key that is
\* set is converted, and one that does not convert fails the Load; a key that
\* is not set takes the declared default, fails the Load when the field is
\* required, and otherwise leaves the zero value.  A failed Load returns nil.
C5_BindingDecision ==
    \A c \in Callers : (Done(c) /\ Bound(c)) =>
      LET out == calls[c].out
          bad == {n \in 1..Len(Fields) :
                    C5_Unconvertible(Fields[n]) \/ C5_MissingRequired(Fields[n])}
      IN  /\ env = LoadFrom(calls[c].ldr.envFiles, calls[c].ldr.skipMissingFiles,
                            fs, obs[c].startEnv, 1).env
          /\ IF bad = {}
             THEN /\ out.err = NoErr
                  /\ Len(out.cfg) = 1
                  /\ \A n \in 1..Len(Fields) :
                       out.cfg[1][Fields[n].name] = C5_Expected(Fields[n])
             ELSE /\ out.cfg = <<>>
                  /\ out.err[1] = Layer("error parsing env variables into struct", "")
                  /\ out.err[2] =
                       IF C5_MissingRequired(Fields[Min(bad)])
                       THEN Layer("required environment variable is not set",
                                  Fields[Min(bad)].key)
                       ELSE Layer("parse error on field", Fields[Min(bad)].name)

\* A Load has inserted PORT=notanumber from a file and failed at the binding
\* of the integer field, returning nil.
C5_Witness ==
    /\ Done(1) /\ Bound(1)
    /\ obs[1].startEnv["PORT"] = Absent
    /\ env["PORT"] = "notanumber"
    /\ calls[1].out.cfg = <<>>
    /\ calls[1].out.err[2] = Layer("parse error on field", "Port")

-----------------------------------------------------------------------------
\* C6: idempotent re-load.  A Load that returns right after another Load on
\* the same Loader returned, nothing having run between the two, returns what
\* the first one returned.
C6_IdempotentReload ==
    \A c \in Callers :
      (Done(c) /\ obs[c].before.valid /\ obs[c].before.ldr = calls[c].ldr)
        => calls[c].out = obs[c].before.out

\* The second of two Loads has returned the configuration the first one
\* returned, and the first one had inserted keys into the environment.
C6_Witness ==
    /\ Done(1)
    /\ obs[1].before.valid
    /\ obs[1].before.ldr = calls[1].ldr
    /\ obs[1].before.startEnv # obs[1].startEnv
    /\ calls[1].out.err = NoErr
    /\ calls[1].out = obs[1].before.out

-----------------------------------------------------------------------------
\* C7, as stated: every listed source that is there and cannot be read or
\* parsed makes the Load fail with that source's error, with or without the
\* option.
C7_Original ==
    \A c \in Callers : Done(c) =>
      LET fl == calls[c].ldr.envFiles
      IN  \A i \in 1..Len(fl) :
            Unloadable(fl[i]) =>
              calls[c].out =
                [cfg |-> <<>>,
                 err |-> Wrap("error loading env file", fl[i],
                              Wrap("failed to load env file", "",
                                   ReadFile(fs, fl[i]).err))]

\* C7, amended: a Load fails, with or without the option, whenever some
\* listed source is there and cannot be read or parsed; and it fails with
\* that source's error, which does not wrap ErrSourceNotFound, when the Load
\* gets to the source: when no source listed before it is unloadable, or
\* missing while the option is not set.
C7_OnlyNotFoundSuppressible ==
    \A c \in Callers : Done(c) =>
      LET fl == calls[c].ldr.envFiles
          U == {i \in 1..Len(fl) : Unloadable(fl[i])}
      IN  U # {} =>
            /\ calls[c].out.cfg = <<>>
            /\ calls[c].out.err # NoErr
            /\ (\A j \in 1..(Min(U) - 1) :
                  ~(Missing(fl[j]) /\ ~calls[c].ldr.skipMissingFiles))
               => /\ calls[c].out.err =
                       Wrap("error loading env file", fl[Min(U)],
                            Wrap("failed to load env file", "",
                                 ReadFile(fs, fl[Min(U)]).err))
                  /\ ~ErrorsIs(calls[c].out.err, ErrSourceNotFound)

\* A Load with the option has skipped the missing a.env and failed on b.env,
\* which is there and cannot be loaded.
C7_Witness ==
    /\ Done(1)
    /\ calls[1].ldr.skipMissingFiles
    /\ calls[1].ldr.envFiles = <<"a.env", "b.env">>
    /\ Missing("a.env") /\ Unloadable("b.env")
    /\ calls[1].out.cfg = <<>>
    /\ calls[1].out.err[1] = Layer("error loading env file", "b.env")
    /\ calls[1].out.err[2] = Layer("failed to load env file", "")

-----------------------------------------------------------------------------
IsStat(e) == e.op = "stat"
\* Source i of the call fails the Load: missing without the option, or
\* there and unloadable.
FailsAt(c, i) ==
    LET p == calls[c].ldr.envFiles[i]
    IN  (Missing(p) /\ ~calls[c].ldr.skipMissingFiles) \/ Unloadable(p)

\* C8: abort ordering.  The operations of a Load, in the order it made
\* them: the sources are checked in list order, each once; a source is read
\* only right after its check and written from only after its read; nothing
\* is done on a source listed after one that failed; the binding comes last,
\* after every source was checked, and only when none failed; and a Load
\* with a failing source returns that source's error, its last operation
\* being on that source.
C8_AbortOrdering ==
    \A c \in Callers :
      LET fl == calls[c].ldr.envFiles
          L == obs[c].log
          stats == SelectSeq(L, IsStat)
          F == {i \in 1..Len(fl) : FailsAt(c, i)}
      IN  /\ \A n \in 1..Len(stats) : stats[n].idx = n
          /\ \A n \in 1..Len(L) :
               /\ L[n].op = "read" => (n > 1 /\ L[n - 1] = Event("stat", L[n].idx))
               /\ L[n].op = "setenv" =>
                    (n > 1 /\ L[n - 1].idx = L[n].idx
                           /\ L[n - 1].op \in {"read", "setenv"})
               /\ L[n].op = "parse" =>
                    (n = Len(L) /\ L[n].idx = Len(fl) + 1 /\ Len(stats) = Len(fl))
               /\ \A j \in 1..(L[n].idx - 1) : ~FailsAt(c, j)
          /\ (Done(c) /\ F # {}) =>
               /\ calls[c].out.cfg = <<>>
               /\ calls[c].out.err[1] = Layer("error loading env file", fl[Min(F)])
               /\ L[Len(L)].idx = Min(F)
               /\ L[Len(L)].op # "parse"
          /\ (Done(c) /\ F = {}) => Bound(c)

\* A Load of three sources has applied the first and failed at the second:
\* its last operation is the read of the second source.
C8_Witness ==
    /\ Done(1)
    /\ Len(calls[1].ldr.envFiles) = 3
    /\ ~FailsAt(1, 1) /\ ~Missing(calls[1].ldr.envFiles[1])
    /\ FailsAt(1, 2)
    /\ ~FailsAt(1, 3)
    /\ obs[1].log[Len(obs[1].log)] = Event("read", 2)
    /\ calls[1].out.err[1] = Layer("error loading env file", calls[1].ldr.envFiles[2])

-----------------------------------------------------------------------------
\* The step that handles key k of the parsed file.
C9_WriteStep ==
    \A c \in Callers : \A k \in Keys :
      ( /\ calls[c].pc = "setenv"
        /\ k \in calls[c].todo
        /\ k \notin calls'[c].todo )
      => env'[k] = IF k \notin calls[c].currentEnv THEN calls[c].envMap[k]
                   ELSE env[k]

\* C9: the race on materialization.  When Loads run interleaved, the write
\* of a key is decided by the list of keys the call took before its writes,
\* not by the environment at the write: a call whose list lacks the key
\* writes its value even when another call has set the key since.
C9_RaceOnMaterialization == [][C9_WriteStep]_vars

\* Two interleaved Loads have returned: one bound Port = 3000 from the PORT
\* it found, the other failed on PORT=notanumber, which it wrote over the
\* first value and which the environment now holds.
C9_Witness ==
    \E c, d \in Callers :
      /\ c # d
      /\ Done(c) /\ Done(d)
      /\ calls[c].out.err = NoErr
      /\ calls[c].out.cfg[1].Port = 3000
      /\ calls[d].out.cfg = <<>>
      /\ calls[d].out.err[2] = Layer("parse error on field", "Port")
      /\ env["PORT"] = "notanumber"

-----------------------------------------------------------------------------
\* The read of a file that is gone.
C10_ReadStep ==
    \A c \in Callers :
      ( /\ calls[c].pc = "read"
        /\ Missing(FileOf(calls[c]))
        /\ calls'[c] # calls[c] )
      => /\ calls'[c].pc = "done"
         /\ calls'[c].out =
              [cfg |-> <<>>,
               err |-> << Layer("error loading env file", FileOf(calls[c])),
                          Layer("failed to load env file", ""),
                          Layer("open", FileOf(calls[c])),
                          Layer("no such file or directory", "") >>]

\* The returned errors that wrap ErrSourceNotFound.
C10_NotFoundErrors ==
    \A c \in Callers :
      (Done(c) /\ ErrorsIs(calls[c].out.err, ErrSourceNotFound)) =>
        /\ ~calls[c].ldr.skipMissingFiles
        /\ Len(calls[c].out.err) = 2
        /\ calls[c].out.err[1].msg = "error loading env file"

\* C10: the skip is decided at the existence check alone.  A read that finds
\* the file gone fails the Load with "failed to load env file", with or
\* without the option, and that error does not wrap ErrSourceNotFound; the
\* only error a Load returns that wraps ErrSourceNotFound is the one of the
\* existence check, returned when the option is not set.
C10_SkipOnlyAtCheck == [][C10_ReadStep]_vars /\ []C10_NotFoundErrors

\* A Load with the option has failed with "failed to load env file" on a
\* file that was there at the check and gone at the read.
C10_Witness ==
    \E c \in Callers :
      /\ Done(c)
      /\ calls[c].ldr.skipMissingFiles
      /\ Len(calls[c].out.err) = 4
      /\ calls[c].out.err[2] = Layer("failed to load env file", "")
      /\ calls[c].out.err[4] = Layer("no such file or directory", "")

-----------------------------------------------------------------------------
\* A Load that failed, at a source or at env.Parse, has left in the
\* environment every key that the sources it loaded before the failure define:
\* a key that was not set when the Load started holds the value of the first
\* of these sources that defines it.
C11_StaysOnFailure ==
    \A c \in Callers : (Done(c) /\ calls[c].out.err # NoErr) =>
      LET fl == calls[c].ldr.envFiles
      IN  \A k \in Keys :
            LET D == {j \in Reached(c) : Defines(fl[j], k)}
            IN  D # {} =>
                  /\ env[k] # Absent
                  /\ obs[c].startEnv[k] = Absent
                       => env[k] = ReadFile(fs, fl[Min(D)]).map[k]

\* The keys failed Loads inserted hold the inserted values, whatever has run
\* since: Loads on this or another loader, changes of the files.
C11_StillSet == \A k \in Keys : inserted[k] # Absent => env[k] = inserted[k]

\* A Load that got to env.Parse has bound the inserted values: one that does
\* not convert fails it, and a Load that succeeded returns the others
\* converted, whatever the files say now.
C11_BindsInserted ==
    \A c \in Callers : (Done(c) /\ Bound(c)) =>
      \A n \in 1..Len(Fields) :
        LET f == Fields[n]
            v == Lookup(inserted, f.key)
        IN  v # Absent =>
              /\ (f.type = "int" /\ ~IsInt(v))
                   => (calls[c].out.cfg = <<>> /\ calls[c].out.err # NoErr)
              /\ calls[c].out.err = NoErr
                   => calls[c].out.cfg[1][f.name] = C5_Converted(f, v)

\* C11: Load never rolls back the environment.  When a Load fails at a source
\* or at the binding step, the keys inserted from the sources applied before
\* the failure stay in the environment; a later Load, on this or any other
\* loader, finds them set and does not replace them, and binds the old value
\* even when the file now gives the key another value.
C11_NoRollback == C11_StaysOnFailure /\ C11_StillSet /\ C11_BindsInserted

\* A Load had inserted PORT=3000 and failed; the file that now defines PORT
\* gives it another value, and a later Load on a list with that file has
\* succeeded and bound Port = 3000.
C11_Witness ==
    /\ Done(1) /\ Bound(1)
    /\ inserted["PORT"] = "3000"
    /\ \E i \in 1..Len(calls[1].ldr.envFiles) :
         /\ Defines(calls[1].ldr.envFiles[i], "PORT")
         /\ ReadFile(fs, calls[1].ldr.envFiles[i]).map["PORT"] # "3000"
    /\ \A p \in Paths : ~(Defines(p, "PORT") /\ ReadFile(fs, p).map["PORT"] = "3000")
    /\ calls[1].out.err = NoErr
    /\ calls[1].out.cfg[1].Port = 3000

====
